---- MODULE Spec2Model ----
(***************************************************************************)
(* A model of the simple-chatbot conversation loop (ChatSession), of the    *)
(* helpers it relies on, and of the tool-call detection functions of       *)
(* structured-output-test (detectToolCall and its two methods), and of     *)
(* main, which loads the configuration and connects to the servers.        *)
(*                                                                         *)
(* Texts (model responses, user input lines, message contents) are         *)
(* sequences of lexical tokens; JSON.parse and JSON.stringify are computed *)
(* over these tokens.  A token is a record [k, s]: k is the token class    *)
(* ("p" JSON punctuation, "str" a quoted JSON string, "num" a number,      *)
(* "lit" null/true/false, "w" a run of other non-blank characters, "ws" a  *)
(* run of white space) and s its characters.                               *)
(***************************************************************************)
EXTENDS Integers, Sequences, FiniteSets, TLC

\* ------------------------------------------------------------------ bounds

\* Number of connected MCP servers (entries of ChatSession.clients).
NClients == 2
\* Accepted user turns per session.
MaxTurns == 1
\* SIGINT deliveries per session.
MaxSigInt == 1
\* Calls and array operations of the code that holds the session.
MaxCallerOps == 2
\* Parts (prose, JSON objects, stray braces) a text handed to detection is
\* put together from.
MaxParts == 3
\* Calls of detectToolCall in a row, on the same text or on others.
MaxCalls == 3

\* ------------------------------------------------------------------ tokens

P(c) == [k |-> "p", s |-> c]
S(c) == [k |-> "str", s |-> c]
N(c) == [k |-> "num", s |-> c]
L(c) == [k |-> "lit", s |-> c]
W(c) == [k |-> "w", s |-> c]
WS == [k |-> "ws", s |-> " "]
\* White space with a line break in it.
NL == [k |-> "ws", s |-> "\n"]

\* ------------------------------------------------------------- JSON values

StrV(c) == [t |-> "str", v |-> c]
NumV(c) == [t |-> "num", v |-> c]
LitV(c) == [t |-> "lit", v |-> c]
ObjV(ks, vs) == [t |-> "obj", keys |-> ks, vals |-> vs]
ArrV(vs) == [t |-> "arr", items |-> vs]

ParseFail == [ok |-> FALSE]
ParseOk(val, nxt) == [ok |-> TRUE, v |-> val, i |-> nxt]

RECURSIVE SkipWs(_, _)
SkipWs(t, i) ==
    IF i <= Len(t) /\ t[i].k = "ws" THEN SkipWs(t, i + 1) ELSE i

RECURSIVE ParseValue(_, _)
RECURSIVE ParseMembers(_, _, _, _)
RECURSIVE ParseItems(_, _, _)

\* The JSON grammar's "value" production, read from position i0 of t.
ParseValue(t, i0) ==
    LET i == SkipWs(t, i0) IN
    IF i > Len(t) THEN ParseFail
    ELSE IF t[i].k = "str" THEN ParseOk(StrV(t[i].s), i + 1)
    ELSE IF t[i].k = "num" THEN ParseOk(NumV(t[i].s), i + 1)
    ELSE IF t[i].k = "lit" THEN ParseOk(LitV(t[i].s), i + 1)
    ELSE IF t[i] = P("{") THEN
        LET j == SkipWs(t, i + 1) IN
        IF j <= Len(t) /\ t[j] = P("}") THEN ParseOk(ObjV(<<>>, <<>>), j + 1)
        ELSE ParseMembers(t, j, <<>>, <<>>)
    ELSE IF t[i] = P("[") THEN
        LET j == SkipWs(t, i + 1) IN
        IF j <= Len(t) /\ t[j] = P("]") THEN ParseOk(ArrV(<<>>), j + 1)
        ELSE ParseItems(t, j, <<>>)
    ELSE ParseFail

\* member ("," member)* "}" with the members read so far in ks, vs.
ParseMembers(t, i0, ks, vs) ==
    LET i == SkipWs(t, i0) IN
    IF i > Len(t) \/ t[i].k # "str" THEN ParseFail
    ELSE
        LET c == SkipWs(t, i + 1) IN
        IF c > Len(t) \/ t[c] # P(":") THEN ParseFail
        ELSE
            LET r == ParseValue(t, c + 1) IN
            IF ~r.ok THEN ParseFail
            ELSE
                LET e == SkipWs(t, r.i) IN
                IF e > Len(t) THEN ParseFail
                ELSE IF t[e] = P(",")
                    THEN ParseMembers(t, e + 1, Append(ks, t[i].s), Append(vs, r.v))
                ELSE IF t[e] = P("}")
                    THEN ParseOk(ObjV(Append(ks, t[i].s), Append(vs, r.v)), e + 1)
                ELSE ParseFail

\* value ("," value)* "]" with the items read so far in vs.
ParseItems(t, i0, vs) ==
    LET r == ParseValue(t, i0) IN
    IF ~r.ok THEN ParseFail
    ELSE
        LET e == SkipWs(t, r.i) IN
        IF e > Len(t) THEN ParseFail
        ELSE IF t[e] = P(",") THEN ParseItems(t, e + 1, Append(vs, r.v))
        ELSE IF t[e] = P("]") THEN ParseOk(ArrV(Append(vs, r.v)), e + 1)
        ELSE ParseFail

\* JSON.parse that takes no white space between the tokens of a value.
JSONparse_Strict(t) ==
    LET r == ParseValue(t, 1) IN
    IF r.ok /\ r.i = Len(t) + 1 /\ \A n \in 1..Len(t) : t[n].k # "ws"
    THEN r ELSE ParseFail

\* JSON.parse: one value with optional white space around it, nothing else;
\* [ok |-> FALSE] stands for the SyntaxError it throws.
JSONparse(t) ==
    LET r == ParseValue(t, 1) IN
    IF r.ok /\ SkipWs(t, r.i) = Len(t) + 1 THEN r ELSE ParseFail

\* The JavaScript "key in value" test on a parsed object or array.
HasKey(val, key) ==
    /\ val.t = "obj"
    /\ \E n \in 1..Len(val.keys) : val.keys[n] = key

\* Property read: of repeated keys the last one wins.
GetKey(val, key) ==
    LET n == CHOOSE m \in 1..Len(val.keys) :
                 /\ val.keys[m] = key
                 /\ \A q \in (m + 1)..Len(val.keys) : val.keys[q] # key
    IN val.vals[n]

RECURSIVE JSONstringify(_)
RECURSIVE StringifyMembers(_, _, _)
RECURSIVE StringifyItems(_, _)

\* JSON.stringify of a JSON value: compact, keys in insertion order.
JSONstringify(val) ==
    IF val.t = "str" THEN <<S(val.v)>>
    ELSE IF val.t = "num" THEN <<N(val.v)>>
    ELSE IF val.t = "lit" THEN <<L(val.v)>>
    ELSE IF val.t = "obj" THEN <<P("{")>> \o StringifyMembers(val.keys, val.vals, 1) \o <<P("}")>>
    ELSE <<P("[")>> \o StringifyItems(val.items, 1) \o <<P("]")>>

StringifyMembers(ks, vs, n) ==
    IF n > Len(ks) THEN <<>>
    ELSE (IF n > 1 THEN <<P(",")>> ELSE <<>>)
         \o <<S(ks[n]), P(":")>> \o JSONstringify(vs[n])
         \o StringifyMembers(ks, vs, n + 1)

StringifyItems(vs, n) ==
    IF n > Len(vs) THEN <<>>
    ELSE (IF n > 1 THEN <<P(",")>> ELSE <<>>)
         \o JSONstringify(vs[n]) \o StringifyItems(vs, n + 1)

\* ------------------------------------------------------------ string helpers

RECURSIVE TrimStart(_)
TrimStart(t) ==
    IF t # <<>> /\ Head(t).k = "ws" THEN TrimStart(Tail(t)) ELSE t

RECURSIVE TrimEnd(_)
TrimEnd(t) ==
    IF t # <<>> /\ t[Len(t)].k = "ws" THEN TrimEnd(SubSeq(t, 1, Len(t) - 1)) ELSE t

\* String.prototype.trim
Trim(t) == TrimEnd(TrimStart(t))

\* Lower-case forms of the words of the model's vocabulary that have capitals.
LowerWord(w) ==
    CASE w = "EXIT" -> "exit"
      [] w = "Exit" -> "exit"
      [] w = "QUIT" -> "quit"
      [] w = "Quit" -> "quit"
      [] w = "Use" -> "use"
      [] w = "Hello" -> "hello"
      [] w = "Mock" -> "mock"
      [] w = "Tool" -> "tool"
      [] w = "Echo" -> "echo"
      [] w = "No" -> "no"
      [] w = "Error" -> "error"
      [] OTHER -> w

\* String.prototype.toLowerCase
ToLowerCase(t) == [n \in 1..Len(t) |-> [k |-> t[n].k, s |-> LowerWord(t[n].s)]]

\* A template-literal substitution ${v} of a parsed JSON value.
TemplateOf(val) ==
    IF val.t = "str" THEN <<W(val.v)>>
    ELSE IF val.t = "num" THEN <<N(val.v)>>
    ELSE IF val.t = "lit" THEN <<L(val.v)>>
    ELSE IF val.t = "obj" THEN <<P("["), W("object"), WS, W("Object"), P("]")>>
    ELSE <<>>

\* --------------------------------------------------- tool-call detection
\* detectToolCall and its two methods, over tokens.  The words of the texts
\* are runs of letters and their quoted strings hold no braces, colons or
\* line breaks, so a pattern finds a word as a whole token or not at all.

Least(set) == CHOOSE x \in set : \A y \in set : x <= y
Greatest(set) == CHOOSE x \in set : \A y \in set : x >= y

\* typeof v === 'object' on a parsed value: objects, arrays and null.
TypeofObject(val) == val.t \in {"obj", "arr"} \/ (val.t = "lit" /\ val.v = "null")

\* The test detectToolCallFromJSON applies to what JSON.parse gave.
MatchesToolCallFormat(r) ==
    /\ r.ok
    /\ HasKey(r.v, "tool")
    /\ HasKey(r.v, "arguments")
    /\ GetKey(r.v, "tool").t = "str"
    /\ TypeofObject(GetKey(r.v, "arguments"))

\* A positive result with the trimmed response as rawResponse.
Detected_RawTrimmed(name, args, response, method) ==
    [isToolCall |-> TRUE,
     toolCallRequest |-> [toolName |-> name, arguments |-> args],
     rawResponse |-> Trim(response), detectionMethod |-> method]

\* A positive result: the object literal with toolCallRequest.
Detected(name, args, response, method) ==
    [isToolCall |-> TRUE,
     toolCallRequest |-> [toolName |-> name, arguments |-> args],
     rawResponse |-> response, detectionMethod |-> method]

\* A negative result that carries a request without a name.
NotDetected_EmptyRequest(response, method) ==
    [isToolCall |-> FALSE,
     toolCallRequest |-> [toolName |-> "", arguments |-> ObjV(<<>>, <<>>)],
     rawResponse |-> response, detectionMethod |-> method]

\* A negative result: the object literal without toolCallRequest.
NotDetected(response, method) ==
    [isToolCall |-> FALSE, rawResponse |-> response, detectionMethod |-> method]

\* The match taken lazily: from the first "{" to the first "}" after it.
BraceSpan_Lazy(t) ==
    LET opens == {i \in 1..Len(t) : t[i] = P("{")} IN
    IF opens = {} THEN <<>>
    ELSE LET closes == {j \in 1..Len(t) : j > Least(opens) /\ t[j] = P("}")} IN
         IF closes = {} THEN <<>> ELSE SubSeq(t, Least(opens), Least(closes))

\* response.match(/\{[\s\S]*\}/): from the first "{" to the last "}"; the
\* empty text stands for no match.
BraceSpan(t) ==
    LET opens == {i \in 1..Len(t) : t[i] = P("{")} IN
    IF opens = {} THEN <<>>
    ELSE LET closes == {j \in 1..Len(t) : j > Least(opens) /\ t[j] = P("}")} IN
         IF closes = {} THEN <<>> ELSE SubSeq(t, Least(opens), Greatest(closes))

\* An exception that leaves the function instead of a result.
Thrown == [threw |-> TRUE]

\* detectToolCallFromJSON without its catch blocks: the SyntaxError of
\* JSON.parse leaves the function.
detectToolCallFromJSON_NoCatch(response) ==
    LET whole == JSONparse(Trim(response)) IN
    IF ~whole.ok THEN Thrown
    ELSE IF MatchesToolCallFormat(whole)
    THEN Detected(GetKey(whole.v, "tool").v, GetKey(whole.v, "arguments"),
                  response, "json-parsing")
    ELSE NotDetected(response, "json-parsing")

\* Both JSON.parse calls are in try blocks: a SyntaxError is caught and the
\* next attempt is made.
detectToolCallFromJSON(response) ==
    LET whole == JSONparse(Trim(response)) IN
    IF MatchesToolCallFormat(whole)
    THEN Detected(GetKey(whole.v, "tool").v, GetKey(whole.v, "arguments"),
                  response, "json-parsing")
    ELSE LET embedded == JSONparse(BraceSpan(response)) IN
         IF MatchesToolCallFormat(embedded)
         THEN Detected(GetKey(embedded.v, "tool").v, GetKey(embedded.v, "arguments"),
                       response, "json-parsing")
         ELSE NotDetected(response, "json-parsing")

\* A run of letters that is, whatever its case, one of words.
IsWord(tok, words) == tok.k \in {"w", "lit"} /\ LowerWord(tok.s) \in words

\* ([a-zA-Z_-]+) at token i.
IsName(t, i) == i <= Len(t) /\ t[i].k \in {"w", "lit"}

RECURSIVE SkipSep(_, _)
\* [:\s]+ from token i on.
SkipSep(t, i) ==
    IF i <= Len(t) /\ (t[i].k = "ws" \/ t[i] = P(":")) THEN SkipSep(t, i + 1) ELSE i

\* tool[:\s]+([a-zA-Z_-]+) at token i: where the name is, 0 for no match.
ToolThenName(t, i) ==
    IF i <= Len(t) /\ IsWord(t[i], {"tool"})
    THEN LET n == SkipSep(t, i + 1) IN
         IF n > i + 1 /\ IsName(t, n) THEN n ELSE 0
    ELSE 0

\* (?:use|call|invoke)\s+(?:the\s+)?tool[:\s]+([a-zA-Z_-]+) at token i.
UseToolThenName(t, i) ==
    IF IsWord(t[i], {"use", "call", "invoke"}) /\ i + 1 <= Len(t) /\ t[i + 1].k = "ws"
    THEN LET j == SkipWs(t, i + 1) IN
         IF j + 1 <= Len(t) /\ IsWord(t[j], {"the"}) /\ t[j + 1].k = "ws"
         THEN ToolThenName(t, SkipWs(t, j + 1))
         ELSE ToolThenName(t, j)
    ELSE 0

\* \[tool:\s*([a-zA-Z_-]+)\] at token i.
BracketToolThenName(t, i) ==
    IF t[i] = P("[") /\ i + 2 <= Len(t) /\ IsWord(t[i + 1], {"tool"}) /\ t[i + 2] = P(":")
    THEN LET n == SkipWs(t, i + 3) IN
         IF IsName(t, n) /\ n + 1 <= Len(t) /\ t[n + 1] = P("]") THEN n ELSE 0
    ELSE 0

\* toolCallPatterns[p - 1] at token i.
PatternAt(p, t, i) ==
    CASE p = 1 -> UseToolThenName(t, i)
      [] p = 2 -> ToolThenName(t, i)
      [] p = 3 -> BracketToolThenName(t, i)

\* response.match(pattern): the name of the leftmost match, 0 for none.
FirstMatch(p, t) ==
    LET hits == {i \in 1..Len(t) : PatternAt(p, t, i) # 0} IN
    IF hits = {} THEN 0 ELSE PatternAt(p, t, Least(hits))

\* The characters of a token outside any JSON reading.
Chars(t) == [n \in 1..Len(t) |-> [k |-> IF t[n].k = "ws" THEN "ws" ELSE "w", s |-> t[n].s]]

\* A scraped argument value: a string, kept as its characters.
TextV(t) == [t |-> "text", v |-> t]

RECURSIVE ValueEnd(_, _)
\* [^"',}\n]+ from token i on: the first token that is not part of it.
ValueEnd(t, i) ==
    IF i <= Len(t) /\ t[i].k # "str" /\ t[i] # P(",") /\ t[i] # P("}") /\ t[i] # NL
    THEN ValueEnd(t, i + 1) ELSE i

\* args[key] = value
PutArg(args, key, val) ==
    IF \E n \in 1..Len(args.keys) : args.keys[n] = key
    THEN LET n == CHOOSE m \in 1..Len(args.keys) : args.keys[m] = key IN
         ObjV(args.keys, [args.vals EXCEPT ![n] = val])
    ELSE ObjV(Append(args.keys, key), Append(args.vals, val))

RECURSIVE ScrapeArgs(_, _, _)
\* The loop over /([a-zA-Z_]+):\s*["']?([^"',}\n]+)["']?/g from token i on.
ScrapeArgs(t, i, args) ==
    IF i > Len(t) THEN args
    ELSE IF t[i].k \in {"w", "lit"} /\ i + 1 <= Len(t) /\ t[i + 1] = P(":")
    THEN LET j == SkipWs(t, i + 2)
             e == ValueEnd(t, j)
         IN
         IF j <= Len(t) /\ t[j].k = "str" /\ t[j].s # ""
         THEN ScrapeArgs(t, j + 1, PutArg(args, t[i].s, TextV(<<W(t[j].s)>>)))
         ELSE IF e > j
         THEN ScrapeArgs(t, e, PutArg(args, t[i].s, TextV(Trim(Chars(SubSeq(t, j, e - 1))))))
         ELSE IF j > i + 2
         THEN ScrapeArgs(t, j, PutArg(args, t[i].s, TextV(<<>>)))
         ELSE ScrapeArgs(t, i + 1, args)
    ELSE ScrapeArgs(t, i + 1, args)

\* detectToolCallFromText that takes the match that comes first in the text,
\* whichever pattern it is of.
detectToolCallFromText_Leftmost(response) ==
    LET matching == {p \in 1..3 : FirstMatch(p, response) # 0}
        n == IF matching = {} THEN 0
             ELSE Least({FirstMatch(p, response) : p \in matching})
    IN
    IF n # 0
    THEN Detected(response[n].s, ScrapeArgs(response, 1, ObjV(<<>>, <<>>)),
                  response, "text-analysis")
    ELSE NotDetected(response, "text-analysis")

\* The loop over toolCallPatterns: the first pattern, in the order of the
\* array, that matches gives the name.
detectToolCallFromText(response) ==
    LET matching == {p \in 1..3 : FirstMatch(p, response) # 0}
        n == IF matching = {} THEN 0 ELSE FirstMatch(Least(matching), response)
    IN
    IF n # 0
    THEN Detected(response[n].s, ScrapeArgs(response, 1, ObjV(<<>>, <<>>)),
                  response, "text-analysis")
    ELSE NotDetected(response, "text-analysis")

\* detectToolCall that returns the text result whatever it is.
detectToolCall_ReturnsTextResult(response) ==
    LET jsonResult == detectToolCallFromJSON(response)
        textResult == detectToolCallFromText(response)
    IN
    IF jsonResult.isToolCall THEN jsonResult ELSE textResult

\* detectToolCall with the text patterns tried before the JSON parsing.
detectToolCall_TextFirst(response) ==
    LET jsonResult == detectToolCallFromJSON(response)
        textResult == detectToolCallFromText(response)
    IN
    IF textResult.isToolCall THEN textResult
    ELSE IF jsonResult.isToolCall THEN jsonResult
    ELSE NotDetected(response, "json-parsing")

\* detectToolCall: the JSON result if positive, else the text result if
\* positive, else a negative result.
detectToolCall(response) ==
    LET jsonResult == detectToolCallFromJSON(response)
        textResult == detectToolCallFromText(response)
    IN
    IF jsonResult = Thrown THEN Thrown
    ELSE IF jsonResult.isToolCall THEN jsonResult
    ELSE IF textResult.isToolCall THEN textResult
    ELSE NotDetected(response, "json-parsing")

\* --------------------------------------------------------- the environment

Clients == 1..NClients

\* The servers a session may be connected to: the tools a server lists
\* (listTools) and what its client's transport is: absent ("none"), one whose
\* close resolves ("ok") or one whose close throws ("fails").
Profiles ==
    { [tools |-> <<[name |-> "echo"]>>, transport |-> "ok"],
      [tools |-> <<>>, transport |-> "fails"],
      [tools |-> <<>>, transport |-> "none"] }

\* Lines the user may type.
UseATool == <<WS, W("Use"), WS, W("a"), WS, W("tool"), WS>>
Inputs == {UseATool, <<W("exit")>>, <<WS, W("QUIT"), WS>>}

\* Texts the model may answer with.
PlainText == <<W("Mock"), WS, W("response")>>
EchoCall ==
    <<P("{"), S("tool"), P(":"), S("echo"), P(","), S("arguments"), P(":"),
      P("{"), S("message"), P(":"), S("test"), P("}"), P("}")>>
ToolOnly == <<P("{"), S("tool"), P(":"), S("echo"), P("}")>>
TextCall == <<W("use"), WS, W("tool"), P(":"), WS, W("echo")>>
Embedded == <<W("Mock"), WS>> \o EchoCall
NumTool ==
    <<P("{"), S("tool"), P(":"), N("5"), P(","), S("arguments"), P(":"),
      S("test"), P("}")>>
Responses == {PlainText, EchoCall, ToolOnly, TextCall, Embedded, NumTool}

\* Texts the model may answer the followup call with; start prints and
\* pushes them and does not look into them.
Followups == {PlainText, EchoCall}

\* Payloads callTool may resolve with, and messages of the errors it may throw.
EchoResult ==
    ObjV(<<"content">>,
         <<ArrV(<<ObjV(<<"type", "text">>, <<StrV("text"), StrV("Echo: test")>>)>>)>>)
\* A payload whose JSON text is the text of the request itself.
MirrorResult ==
    ObjV(<<"tool", "arguments">>,
         <<StrV("echo"), ObjV(<<"message">>, <<StrV("test")>>)>>)
ToolResults == {EchoResult, MirrorResult}
ToolErrors == {<<W("Tool"), WS, W("failed")>>}

\* ------------------------------------------------------------------- state

VARIABLES
    catalog,       \* catalog[c]: the tools server c lists (listTools)
    transport,     \* transport[c]: "none", or how its close settles: "ok", "fails"
    pc,            \* where ChatSession.start is suspended
    scanIdx,       \* the client a for-loop over this.clients is at
    allTools,      \* getAvailableTools' accumulator
    messages,      \* ChatSession.messages, the transcript
    userInput,     \* start's local userInput
    llmResponse,   \* start's local llmResponse
    result,        \* start's local result
    finalResponse, \* start's local finalResponse
    sigintOn,      \* handleSigInt is registered on process
    rlClosed,      \* rl.close() has been called
    alive,         \* the process is running
    exitHow,       \* how the process ended
    nSig,          \* SIGINTs delivered so far
    runs,          \* runs[0]: the cleanup of start's finally; runs[h]: of handler h
    startOutcome,  \* how the promise of start settled
    caught,        \* the await whose failure start's catch block caught
    turns,         \* user turns accepted so far
    turnBase,      \* the transcript when the current turn was accepted
    turnDone,      \* the current turn ran to its end
    completed,     \* turns that ran to their end: direct answers and tool calls
    replies,       \* "Assistant:" lines printed in the current turn
    llmCalls,      \* getResponse calls of the current turn
    sent,          \* the messages argument of the last getResponse call
    listCalls,     \* listTools calls of the current turn's scan, by client
    toolCalls,     \* callTool calls of the current turn
    toolOutcome,   \* what the current turn's tool step came to
    copy,          \* the array the last getMessages call created
    caller,        \* the code outside the session: the array it holds, its calls
    parts,         \* what the text handed to detection is put together from
    found,         \* the detection function called and what it returned
    log,           \* the detectToolCall calls made in a row: text and result
    boot           \* main: where it is, its inputs, the connections it makes

vars ==
    <<catalog, transport, pc, scanIdx, allTools, messages, userInput,
      llmResponse, result, finalResponse, sigintOn, rlClosed, alive, exitHow,
      nSig, runs, startOutcome, caught, turns, turnBase, turnDone, completed, replies,
      llmCalls, sent, listCalls, toolCalls, toolOutcome, copy, caller, parts, found, log, boot>>

config == <<catalog, transport>>
locals == <<userInput, llmResponse, result, finalResponse>>
process == <<alive, exitHow, nSig>>
turnLog == <<turns, turnBase, turnDone, completed, replies, llmCalls, sent, listCalls, toolCalls, toolOutcome>>
ending == <<sigintOn, rlClosed, runs, startOutcome, caught>>
outside == <<copy, caller>>
engine == <<parts, found, log>>
startup == <<boot>>

Msg(r, c) == [role |-> r, content |-> c]

NoText == <<>>
NoRun == [st |-> "idle", idx |-> 0, log |-> <<>>, failed |-> {}]
NoCaller == [ref |-> "none", ops |-> 0, last |-> "none"]
NoResult == [fn |-> "none"]
\* main is not running: the session was constructed by other code.
NoMain == [pc |-> "none"]

\* A session that has been constructed and not started.
SessionInit ==
    /\ \E prof \in [Clients -> Profiles] :
           /\ catalog = [c \in Clients |-> prof[c].tools]
           /\ transport = [c \in Clients |-> prof[c].transport]
    /\ pc = "idle"
    /\ scanIdx = 0
    /\ allTools = <<>>
    /\ messages = <<>>
    /\ userInput = NoText
    /\ llmResponse = NoText
    /\ result = NoText
    /\ finalResponse = NoText
    /\ sigintOn = FALSE
    /\ rlClosed = FALSE
    /\ alive = TRUE
    /\ exitHow = "none"
    /\ nSig = 0
    /\ runs = [r \in 0..MaxSigInt |-> NoRun]
    /\ startOutcome = "pending"
    /\ caught = "none"
    /\ turns = 0
    /\ turnBase = <<>>
    /\ turnDone = FALSE
    /\ completed = [direct |-> 0, tool |-> 0]
    /\ replies = 0
    /\ llmCalls = 0
    /\ sent = <<>>
    /\ listCalls = <<>>
    /\ toolCalls = <<>>
    /\ toolOutcome = "none"
    /\ copy = <<>>
    /\ caller = NoCaller

\* No detection function has been called.
Init ==
    /\ SessionInit
    /\ parts = <<>>
    /\ found = NoResult
    /\ log = <<>>
    /\ boot = NoMain

\* ----------------------------------------------------------------- cleanup

HasTransport(c) == transport[c] # "none"

\* The first client at or after c that passes "!client || !client.transport".
NextTransport(c) ==
    IF \E d \in Clients : d >= c /\ HasTransport(d)
    THEN CHOOSE d \in Clients :
             /\ d >= c /\ HasTransport(d)
             /\ \A e \in Clients : (e >= c /\ HasTransport(e)) => d <= e
    ELSE NClients + 1

\* The loop of cleanup moves to the next client with a transport and calls
\* its close.
Advance(r) ==
    LET d == NextTransport(r.idx + 1) IN
    [r EXCEPT !.idx = d, !.log = IF d <= NClients THEN Append(@, d) ELSE @]

\* cleanup is entered: close is called on the first client with a transport.
BeginRun == Advance([NoRun EXCEPT !.st = "running"])

\* A close that fails is re-thrown out of cleanup.
OnCloseFailure_Rethrow(r) ==
    [r EXCEPT !.st = "threw", !.failed = @ \cup {r.idx}]

\* The catch around "await client.transport.close()": warn, go on.
OnCloseFailure(r) ==
    Advance([r EXCEPT !.failed = @ \cup {r.idx}])

\* The awaited close of client r.idx settles.
AfterClose(r) == IF transport[r.idx] = "ok" THEN Advance(r) ELSE OnCloseFailure(r)

Closing(r) == r.st = "running" /\ r.idx <= NClients
Finished(r) == r.st = "running" /\ r.idx > NClients

\* The finally block of start: the handler is removed, rl is closed and
\* cleanup is entered.
Finally ==
    /\ pc' = "cleanup"
    /\ sigintOn' = FALSE
    /\ rlClosed' = TRUE
    /\ runs' = [runs EXCEPT ![0] = BeginRun]
    /\ startOutcome' = startOutcome

\* The catch block of start, for a failure of the await named by where.
Catch_Continue(where) ==
    /\ caught' = where
    /\ pc' = "question"
    /\ UNCHANGED <<sigintOn, rlClosed, runs, startOutcome>>

Catch(where) ==
    /\ caught' = where
    /\ Finally

\* A break out of the chat loop.
Break ==
    /\ caught' = caught
    /\ Finally

\* ------------------------------------------------------------- ChatSession

\* The tools of a server, tagged, without those whose name an earlier server
\* has listed.
Tagged_SkipKnown(cat, c) ==
    SelectSeq([n \in 1..Len(cat) |-> [name |-> cat[n].name, serverName |-> c]],
              LAMBDA tool : \A m \in 1..Len(allTools) : allTools[m].name # tool.name)

\* getAvailableTools: each tool of a listTools response with its server name.
Tagged(cat, c) == [n \in 1..Len(cat) |-> [name |-> cat[n].name, serverName |-> c]]

RECURSIVE ToolDescriptions(_, _)
\* The "Tool: ..." paragraphs of buildSystemPrompt; the tools of the model
\* carry a name only.
ToolDescriptions(tools, n) ==
    IF n > Len(tools) THEN <<>>
    ELSE <<W("Tool"), P(":"), WS, W(tools[n].name), WS,
           W("Description"), P(":"), WS, W("No"), WS, W("description"), WS,
           W("Arguments"), P(":"), WS>>
         \o ToolDescriptions(tools, n + 1)

\* buildSystemPrompt: the opening line, the tool descriptions and the closing
\* line (the fixed lines between them are left out).
SystemPrompt(tools) ==
    <<W("You"), WS, W("are"), WS, W("a"), WS, W("helpful"), WS, W("assistant"), WS>>
    \o ToolDescriptions(tools, 1)
    \o <<W("Please"), WS, W("use"), WS, W("only"), WS, W("the"), WS, W("tools")>>

NoToolCall == [t |-> "none"]

\* parseToolCallRequest
parseToolCallRequest(text) ==
    LET r == JSONparse(text) IN
    IF /\ r.ok
       /\ r.v.t \in {"obj", "arr"}
       /\ HasKey(r.v, "tool")
       /\ HasKey(r.v, "arguments")
    THEN r.v
    ELSE NoToolCall

IsToolCall(text) == parseToolCallRequest(text).t # "none"

\* tools.tools.some(t => t.name === parsedToolCall.tool)
HasTool(cat, tool) ==
    \E n \in 1..Len(cat) : tool.t = "str" /\ tool.v = cat[n].name

\* The result of callTool returned as its JSON text alone.
ToolResultText_PayloadOnly(payload) == JSONstringify(payload)

\* The texts processLlmResponse returns on its tool path.
ToolResultText(payload) ==
    <<W("Tool"), WS, W("execution"), WS, W("result"), P(":"), WS>>
    \o JSONstringify(payload)

ToolErrorText(message) ==
    <<W("Error"), WS, W("executing"), WS, W("tool"), P(":"), WS>> \o message

NoServerText(tool) ==
    <<W("No"), WS, W("server"), WS, W("found"), WS, W("with"), WS, W("tool"), P(":"), WS>>
    \o TemplateOf(tool)

\* getResponse is handed the last message of the transcript only.
PassedMessages_LastOnly(transcript) ==
    <<transcript[Len(transcript)]>>

\* The argument of this.llmClient.getResponse(this.messages): the transcript
\* as it stands when the call is made.
PassedMessages(transcript) == transcript

\* The two messages start pushes when a tool was executed, swapped.
ToolBranchMessages_Swapped(resp, res) ==
    <<Msg("system", res), Msg("assistant", resp)>>

\* The two messages start pushes when a tool was executed.
ToolBranchMessages(resp, res) ==
    <<Msg("assistant", resp), Msg("system", res)>>

\* start with processLlmResponse's result taken to differ from llmResponse
\* always.
TurnTail_AlwaysTool(resp, res) ==
    /\ result' = res
    /\ messages' = messages \o ToolBranchMessages(resp, res)
    /\ llmCalls' = llmCalls + 1
    /\ sent' = PassedMessages(messages')
    /\ pc' = "llm2"
    /\ UNCHANGED <<replies, turnDone, completed>>

\* start from "if (result !== llmResponse)" on, for the response resp and
\* the result res of processLlmResponse.
TurnTail(resp, res) ==
    /\ result' = res
    /\ IF res # resp
       THEN /\ messages' = messages \o ToolBranchMessages(resp, res)
            /\ llmCalls' = llmCalls + 1
            /\ sent' = PassedMessages(messages')
            /\ pc' = "llm2"
            /\ UNCHANGED <<replies, turnDone, completed>>
       ELSE /\ messages' = Append(messages, Msg("assistant", resp))
            /\ replies' = replies + 1
            /\ pc' = "question"
            /\ turnDone' = TRUE
            /\ completed' = [completed EXCEPT !.direct = @ + 1]
            /\ UNCHANGED <<llmCalls, sent>>

\* The transcript is seeded with the prompt in the role of the user.
Seed_AsUser(tools) == <<Msg("user", SystemPrompt(tools))>>

\* this.messages = [{ role: 'system', content: systemMessage }]
Seed(tools) == <<Msg("system", SystemPrompt(tools))>>

\* start is called: the SIGINT handler is registered and buildSystemPrompt
\* asks the first client for its tools.
Start ==
    /\ alive /\ pc = "idle"
    /\ sigintOn' = TRUE
    /\ pc' = "prompt"
    /\ scanIdx' = 1
    /\ UNCHANGED <<config, allTools, messages, locals, rlClosed, process, runs,
                   startOutcome, caught, turnLog>>
    /\ UNCHANGED <<outside, engine, startup>>

\* getAvailableTools: the listTools of client scanIdx settles.  After the
\* last client the transcript is seeded with the system message.
PromptListTools(ok) ==
    /\ alive /\ pc = "prompt"
    /\ IF ok
       THEN /\ allTools' = allTools \o Tagged(catalog[scanIdx], scanIdx)
            /\ IF scanIdx < NClients
               THEN /\ scanIdx' = scanIdx + 1
                    /\ UNCHANGED <<pc, messages>>
               ELSE /\ messages' = Seed(allTools')
                    /\ pc' = "question"
                    /\ UNCHANGED scanIdx
            /\ UNCHANGED ending
       ELSE /\ Catch("prompt")
            /\ UNCHANGED <<allTools, messages, scanIdx>>
    /\ UNCHANGED <<config, locals, process, turnLog>>
    /\ UNCHANGED <<outside, engine, startup>>

\* The comparison with 'quit' and 'exit' without toLowerCase.
IsExitCommand_CaseSensitive(input) ==
    \/ input = <<W("quit")>>
    \/ input = <<W("exit")>>

\* userInput.toLowerCase() === 'quit' || userInput.toLowerCase() === 'exit'
IsExitCommand(input) ==
    \/ ToLowerCase(input) = <<W("quit")>>
    \/ ToLowerCase(input) = <<W("exit")>>

\* rl.question resolves with line: "exit"/"quit" break the loop, any other
\* line is pushed as a user message and the model is called.
Question(line) ==
    /\ alive /\ pc = "question" /\ ~rlClosed
    /\ LET input == Trim(line) IN
       /\ userInput' = input
       /\ IF IsExitCommand(input)
          THEN /\ Break
               /\ UNCHANGED <<messages, turnLog>>
          ELSE /\ turns < MaxTurns
               /\ messages' = Append(messages, Msg("user", input))
               /\ pc' = "llm1"
               /\ turns' = turns + 1
               /\ turnBase' = messages
               /\ turnDone' = FALSE
               /\ UNCHANGED completed
               /\ replies' = 0
               /\ llmCalls' = 1
               /\ sent' = PassedMessages(messages')
               /\ listCalls' = <<>>
               /\ toolCalls' = <<>>
               /\ toolOutcome' = "none"
               /\ UNCHANGED ending
    /\ UNCHANGED <<config, scanIdx, allTools, llmResponse, result, finalResponse, process>>
    /\ UNCHANGED <<outside, engine, startup>>

\* rl.question rejects (AbortError or any other error): the loop is left.
QuestionRejects ==
    /\ alive /\ pc = "question"
    /\ Break
    /\ UNCHANGED <<config, scanIdx, allTools, messages, locals, process, turnLog>>
    /\ UNCHANGED <<outside, engine, startup>>

\* The first getResponse of a turn resolves with text; processLlmResponse
\* returns it as it is, or starts its scan of the clients.
LlmResponds(text) ==
    /\ alive /\ pc = "llm1"
    /\ llmResponse' = text
    /\ IF IsToolCall(text)
       THEN /\ pc' = "scan"
            /\ scanIdx' = 1
            /\ listCalls' = <<1>>
            /\ UNCHANGED <<messages, result, replies, turnDone, completed, llmCalls, sent>>
       ELSE /\ TurnTail(text, text)
            /\ UNCHANGED <<scanIdx, listCalls>>
    /\ UNCHANGED <<config, allTools, userInput, finalResponse, process, ending,
                   turns, turnBase, toolCalls, toolOutcome>>
    /\ UNCHANGED <<outside, engine, startup>>

\* The first getResponse of a turn throws and is called again.
LlmFails_Retry ==
    /\ alive /\ pc = "llm1" /\ llmCalls < 3
    /\ llmCalls' = llmCalls + 1
    /\ UNCHANGED sent
    /\ UNCHANGED <<config, pc, scanIdx, allTools, messages, locals, process, ending,
                   turns, turnBase, turnDone, completed, replies, listCalls, toolCalls, toolOutcome>>
    /\ UNCHANGED <<outside, engine, startup>>

\* The first getResponse of a turn throws.
LlmFails ==
    /\ alive /\ pc = "llm1"
    /\ Catch("llm1")
    /\ UNCHANGED <<config, scanIdx, allTools, messages, locals, process, turnLog>>
    /\ UNCHANGED <<outside, engine, startup>>

\* The end of the scan with no server found is thrown as an error.
OnNoServer_Throw(tool) ==
    /\ Catch("scan")
    /\ UNCHANGED <<messages, result, turnDone, completed, replies, llmCalls, sent>>

\* The line after the loop of processLlmResponse: the "No server found"
\* text is returned.
OnNoServer(tool) ==
    /\ TurnTail(llmResponse, NoServerText(tool))
    /\ UNCHANGED ending

\* The rejection of listTools is caught like that of callTool and becomes
\* the returned text.
OnListToolsFailure_AsResult ==
    /\ TurnTail(llmResponse, ToolErrorText(<<W("Tool"), WS, W("failed")>>))
    /\ UNCHANGED <<ending, scanIdx, turns, turnBase, listCalls, toolCalls, toolOutcome>>

\* The await of listTools stands outside the try of processLlmResponse: its
\* rejection leaves processLlmResponse and is caught by the catch of start.
OnListToolsFailure ==
    /\ Catch("scan")
    /\ UNCHANGED <<scanIdx, messages, result, turnLog>>

\* processLlmResponse: the listTools of client scanIdx settles.
ScanListTools(ok) ==
    /\ alive /\ pc = "scan"
    /\ LET call == parseToolCallRequest(llmResponse)
           tool == GetKey(call, "tool")
       IN
       IF ~ok
       THEN OnListToolsFailure
       ELSE IF HasTool(catalog[scanIdx], tool)
       THEN /\ pc' = "call"
            /\ toolCalls' = Append(toolCalls,
                   [client |-> scanIdx, name |-> tool,
                    arguments |-> GetKey(call, "arguments")])
            /\ UNCHANGED <<scanIdx, messages, result, ending, turns, turnBase,
                           turnDone, completed, replies, llmCalls, sent, listCalls, toolOutcome>>
       ELSE IF scanIdx < NClients
       THEN /\ scanIdx' = scanIdx + 1
            /\ listCalls' = Append(listCalls, scanIdx + 1)
            /\ UNCHANGED <<pc, messages, result, ending, turns, turnBase,
                           turnDone, completed, replies, llmCalls, sent, toolCalls, toolOutcome>>
       ELSE /\ toolOutcome' = "noserver"
            /\ OnNoServer(tool)
            /\ UNCHANGED <<scanIdx, turns, turnBase, listCalls, toolCalls>>
    /\ UNCHANGED <<config, allTools, userInput, llmResponse, finalResponse, process>>
    /\ UNCHANGED <<outside, engine, startup>>

\* callTool resolves with payload.
CallToolReturns(payload) ==
    /\ alive /\ pc = "call"
    /\ toolOutcome' = "ok"
    /\ TurnTail(llmResponse, ToolResultText(payload))
    /\ UNCHANGED <<config, scanIdx, allTools, userInput, llmResponse, finalResponse,
                   process, ending, turns, turnBase, listCalls, toolCalls>>
    /\ UNCHANGED <<outside, engine, startup>>

\* The failure of callTool leaves processLlmResponse as an exception.
OnCallToolFailure_Rethrow(message) ==
    /\ Catch("call")
    /\ UNCHANGED <<messages, result, turnDone, completed, replies, llmCalls, sent, scanIdx, listCalls>>

\* The failure of callTool is swallowed and the loop over the clients goes on.
OnCallToolFailure_TryNext(message) ==
    /\ IF scanIdx < NClients
       THEN /\ pc' = "scan"
            /\ scanIdx' = scanIdx + 1
            /\ listCalls' = Append(listCalls, scanIdx + 1)
            /\ UNCHANGED <<messages, result, turnDone, completed, replies, llmCalls, sent>>
       ELSE /\ TurnTail(llmResponse, ToolErrorText(message))
            /\ UNCHANGED <<scanIdx, listCalls>>
    /\ UNCHANGED ending

\* The catch around callTool: the error becomes the returned text.
OnCallToolFailure(message) ==
    /\ TurnTail(llmResponse, ToolErrorText(message))
    /\ UNCHANGED <<ending, scanIdx, listCalls>>

\* callTool throws an error with the given message.
CallToolThrows(message) ==
    /\ alive /\ pc = "call"
    /\ toolOutcome' = "error"
    /\ OnCallToolFailure(message)
    /\ UNCHANGED <<config, allTools, userInput, llmResponse, finalResponse,
                   process, turns, turnBase, toolCalls>>
    /\ UNCHANGED <<outside, engine, startup>>

\* The followup getResponse resolves with text, and the reply is not printed.
FollowupResponds_NoEmit(text) ==
    /\ alive /\ pc = "llm2"
    /\ finalResponse' = text
    /\ messages' = Append(messages, Msg("assistant", text))
    /\ pc' = "question"
    /\ turnDone' = TRUE
    /\ completed' = [completed EXCEPT !.tool = @ + 1]
    /\ UNCHANGED <<config, scanIdx, allTools, userInput, llmResponse, result, process,
                   ending, turns, turnBase, replies, llmCalls, sent, listCalls, toolCalls,
                   toolOutcome>>
    /\ UNCHANGED <<outside, engine, startup>>

\* The followup getResponse resolves with text, and the reply is written over
\* the last message of the transcript.
FollowupResponds_Overwrite(text) ==
    /\ alive /\ pc = "llm2"
    /\ finalResponse' = text
    /\ replies' = replies + 1
    /\ messages' = [messages EXCEPT ![Len(messages)] = Msg("assistant", text)]
    /\ pc' = "question"
    /\ turnDone' = TRUE
    /\ completed' = [completed EXCEPT !.tool = @ + 1]
    /\ UNCHANGED <<config, scanIdx, allTools, userInput, llmResponse, result, process,
                   ending, turns, turnBase, llmCalls, sent, listCalls, toolCalls, toolOutcome>>
    /\ UNCHANGED <<outside, engine, startup>>

\* The followup getResponse resolves with text: it is printed and pushed.
FollowupResponds(text) ==
    /\ alive /\ pc = "llm2"
    /\ finalResponse' = text
    /\ replies' = replies + 1
    /\ messages' = Append(messages, Msg("assistant", text))
    /\ pc' = "question"
    /\ turnDone' = TRUE
    /\ completed' = [completed EXCEPT !.tool = @ + 1]
    /\ UNCHANGED <<config, scanIdx, allTools, userInput, llmResponse, result, process,
                   ending, turns, turnBase, llmCalls, sent, listCalls, toolCalls, toolOutcome>>
    /\ UNCHANGED <<outside, engine, startup>>

\* The followup getResponse throws.
FollowupFails ==
    /\ alive /\ pc = "llm2"
    /\ Catch("llm2")
    /\ UNCHANGED <<config, scanIdx, allTools, messages, locals, process, turnLog>>
    /\ UNCHANGED <<outside, engine, startup>>

\* The cleanup of the finally block: the awaited close settles.
FinallyCloseSettles ==
    /\ alive /\ pc = "cleanup" /\ Closing(runs[0])
    /\ runs' = [runs EXCEPT ![0] = AfterClose(@)]
    /\ UNCHANGED <<config, pc, scanIdx, allTools, messages, locals, sigintOn, rlClosed,
                   process, startOutcome, caught, turnLog>>
    /\ UNCHANGED <<outside, engine, startup>>

\* The cleanup of the finally block is over: start's promise settles.
StartReturns ==
    /\ alive /\ pc = "cleanup" /\ ~Closing(runs[0])
    /\ pc' = "done"
    /\ startOutcome' = IF runs[0].st = "threw" THEN "threw" ELSE "returned"
    /\ runs' = [runs EXCEPT ![0].st = IF @ = "running" THEN "returned" ELSE @]
    /\ UNCHANGED <<config, scanIdx, allTools, messages, locals, sigintOn, rlClosed,
                   process, caught, turnLog>>
    /\ UNCHANGED <<outside, engine, startup>>

\* --------------------------------------------------------------- interrupts

\* SIGINT while handleSigInt is registered: the handler closes rl and enters
\* cleanup.
SigInt ==
    /\ alive /\ sigintOn /\ nSig < MaxSigInt
    /\ nSig' = nSig + 1
    /\ rlClosed' = TRUE
    /\ runs' = [runs EXCEPT ![nSig + 1] = BeginRun]
    /\ UNCHANGED <<config, pc, scanIdx, allTools, messages, locals, sigintOn, alive,
                   exitHow, startOutcome, caught, turnLog>>
    /\ UNCHANGED <<outside, engine, startup>>

\* The cleanup of handler h: the awaited close settles.
HandlerCloseSettles(h) ==
    /\ alive /\ Closing(runs[h])
    /\ runs' = [runs EXCEPT ![h] = AfterClose(@)]
    /\ UNCHANGED <<config, pc, scanIdx, allTools, messages, locals, sigintOn, rlClosed,
                   process, startOutcome, caught, turnLog>>
    /\ UNCHANGED <<outside, engine, startup>>

\* The cleanup of handler h is over: process.exit(0).
HandlerExit(h) ==
    /\ alive /\ Finished(runs[h])
    /\ runs' = [runs EXCEPT ![h].st = "returned"]
    /\ alive' = FALSE
    /\ exitHow' = "exit"
    /\ UNCHANGED <<config, pc, scanIdx, allTools, messages, locals, sigintOn, rlClosed,
                   nSig, startOutcome, caught, turnLog>>
    /\ UNCHANGED <<outside, engine, startup>>

\* SIGINT after the finally block removed the handler and before start
\* returned: with no listener left the signal ends the process.
SigIntDefault ==
    /\ alive /\ pc = "cleanup" /\ ~sigintOn /\ nSig < MaxSigInt
    /\ nSig' = nSig + 1
    /\ alive' = FALSE
    /\ exitHow' = "signal"
    /\ UNCHANGED <<config, pc, scanIdx, allTools, messages, locals, sigintOn, rlClosed,
                   runs, startOutcome, caught, turnLog>>
    /\ UNCHANGED <<outside, engine, startup>>

Next ==
    \/ Start
    \/ \E ok \in BOOLEAN : PromptListTools(ok)
    \/ \E line \in Inputs : Question(line)
    \/ QuestionRejects
    \/ \E text \in Responses : LlmResponds(text)
    \/ LlmFails
    \/ \E ok \in BOOLEAN : ScanListTools(ok)
    \/ \E payload \in ToolResults : CallToolReturns(payload)
    \/ \E message \in ToolErrors : CallToolThrows(message)
    \/ \E text \in Followups : FollowupResponds(text)
    \/ FollowupFails
    \/ FinallyCloseSettles
    \/ StartReturns
    \/ SigInt
    \/ \E h \in 1..MaxSigInt : HandlerCloseSettles(h)
    \/ \E h \in 1..MaxSigInt : HandlerExit(h)
    \/ SigIntDefault

Spec == Init /\ [][Next]_vars

\* -------------------------------------------------------------- the caller
\* Code outside the session calls getMessages and works on the array it got.
\* caller.ref names the array the caller holds: the one getMessages created
\* (copy) or the session's own (messages).

ArrayOps == {"push", "pop", "reverse"}

Reverse(a) == [n \in 1..Len(a) |-> a[Len(a) + 1 - n]]

\* Array.prototype.push / pop / reverse on the array a.
ApplyOp(op, a) ==
    CASE op = "push" -> Append(a, Msg("assistant", <<W("response")>>))
      [] op = "pop" -> SubSeq(a, 1, Len(a) - 1)
      [] op = "reverse" -> Reverse(a)

\* getMessages returns this.messages itself.
getMessages_Alias ==
    /\ alive /\ caller.ops < MaxCallerOps
    /\ caller' = [ref |-> "messages", ops |-> caller.ops + 1, last |-> "get"]
    /\ UNCHANGED <<config, pc, scanIdx, allTools, messages, locals, process, ending,
                   turnLog, copy, engine, startup>>

\* getMessages: a new array with the messages of the transcript.
getMessages ==
    /\ alive /\ caller.ops < MaxCallerOps
    /\ copy' = messages
    /\ caller' = [ref |-> "copy", ops |-> caller.ops + 1, last |-> "get"]
    /\ UNCHANGED <<config, pc, scanIdx, allTools, messages, locals, process, ending,
                   turnLog, engine, startup>>

\* The caller changes the array it holds.
CallerMutates(op) ==
    /\ alive /\ caller.ref # "none" /\ caller.ops < MaxCallerOps
    /\ IF caller.ref = "copy"
       THEN copy' = ApplyOp(op, copy) /\ UNCHANGED messages
       ELSE messages' = ApplyOp(op, messages) /\ UNCHANGED copy
    /\ caller' = [caller EXCEPT !.ops = @ + 1, !.last = op]
    /\ UNCHANGED <<config, pc, scanIdx, allTools, locals, process, ending, turnLog, engine, startup>>

\* A session without interrupts, and its caller.
CallerNext ==
    \/ Start
    \/ \E ok \in BOOLEAN : PromptListTools(ok)
    \/ \E line \in Inputs : Question(line)
    \/ QuestionRejects
    \/ \E text \in Responses : LlmResponds(text)
    \/ LlmFails
    \/ \E ok \in BOOLEAN : ScanListTools(ok)
    \/ \E payload \in ToolResults : CallToolReturns(payload)
    \/ \E message \in ToolErrors : CallToolThrows(message)
    \/ \E text \in Followups : FollowupResponds(text)
    \/ FollowupFails
    \/ FinallyCloseSettles
    \/ StartReturns
    \/ getMessages
    \/ \E op \in ArrayOps : CallerMutates(op)

\* The sessions whose servers are all alike: what getMessages does is not
\* a matter of the servers.
CallerInit ==
    /\ Init
    /\ \A c, d \in Clients : catalog[c] = catalog[d] /\ transport[c] = transport[d]

CallerSpec == CallerInit /\ [][CallerNext]_vars

\* ------------------------------------------------- texts under detection
\* The texts the detection functions are called with are put together from
\* parts: prose (blank, plain, or naming a tool the way a text pattern
\* expects), stray braces, and JSON objects in compact or multi-line layout.

Prose(tokens, name) == [k |-> "prose", text |-> tokens, names |-> name]
Json(val, lay) == [k |-> "json", v |-> val, layout |-> lay]

ToolCallV(tool, args) == ObjV(<<"tool", "arguments">>, <<tool, args>>)

AddArgs == ObjV(<<"a", "b">>, <<NumV("5"), NumV("3")>>)
EchoArgs == ObjV(<<"message">>, <<StrV("test")>>)

\* Prose without a tool name in it.
Space == Prose(<<WS>>, "")
LineBreak == Prose(<<NL>>, "")
ForYou == Prose(<<W("for"), WS, W("you"), WS>>, "")
OpenBrace == Prose(<<P("{")>>, "")
CloseBrace == Prose(<<P("}")>>, "")

\* Prose that names a tool: "tool call", "tool: wrong", "use tool: add" and
\* "[tool: echo]".
HereIs ==
    Prose(<<W("Here"), WS, W("is"), WS, W("the"), WS, W("tool"), WS, W("call"),
            P(":"), WS>>, "call")
UsingTool ==
    Prose(<<W("Using"), WS, W("tool"), P(":"), WS, W("wrong"), WS>>, "wrong")
IWillUse ==
    Prose(<<W("I"), WS, W("will"), WS, W("use"), WS, W("tool"), P(":"), WS,
            W("add"), WS, W("to"), WS>>, "add")
LetMeHelp ==
    Prose(<<W("Let"), WS, W("me"), WS, W("help"), WS, W("with"), WS,
            P("["), W("tool"), P(":"), WS, W("echo"), P("]"), WS>>, "echo")

Parts ==
    { Space, LineBreak, ForYou, OpenBrace, CloseBrace,
      HereIs, UsingTool, IWillUse, LetMeHelp,
      Json(ToolCallV(StrV("add"), AddArgs), "compact"),
      Json(ToolCallV(StrV("add"), AddArgs), "lines"),
      Json(ToolCallV(StrV("echo"), EchoArgs), "compact"),
      Json(ToolCallV(StrV("add"), StrV("test")), "compact"),
      Json(ToolCallV(StrV("add"), NumV("5")), "compact"),
      Json(ToolCallV(StrV("add"), LitV("true")), "compact"),
      Json(ToolCallV(StrV("add"), LitV("null")), "compact"),
      Json(ToolCallV(StrV("add"), ArrV(<<NumV("5")>>)), "compact"),
      Json(ObjV(<<"message">>, <<StrV("hello")>>), "compact"),
      Json(LitV("null"), "compact"),
      Json(ArrV(<<NumV("5")>>), "compact") }

RECURSIVE Spread(_)
\* A line break after every token but the last.
Spread(t) ==
    IF Len(t) <= 1 THEN t ELSE <<Head(t), NL>> \o Spread(Tail(t))

\* The characters of a part.
Render(part) ==
    IF part.k = "prose" THEN part.text
    ELSE IF part.layout = "compact" THEN JSONstringify(part.v)
    ELSE Spread(JSONstringify(part.v))

RECURSIVE Concat(_)
Concat(ps) == IF ps = <<>> THEN <<>> ELSE Render(Head(ps)) \o Concat(Tail(ps))

\* The text the detection functions are called with.
InputText == Concat(parts)

session ==
    <<config, pc, scanIdx, allTools, messages, locals, process, ending, turnLog,
      outside, startup>>

\* Any text of at most MaxParts parts; no session is running.
DetectInit ==
    /\ SessionInit
    /\ \A c \in Clients : catalog[c] = <<>> /\ transport[c] = "none"
    /\ parts \in UNION {[1..n -> Parts] : n \in 0..MaxParts}
    /\ found = NoResult
    /\ log = <<>>
    /\ boot = NoMain

Called(fn, res) == [fn |-> fn, res |-> res]

CallDetectFromJSON ==
    /\ found = NoResult
    /\ found' = Called("detectToolCallFromJSON", detectToolCallFromJSON(InputText))
    /\ UNCHANGED <<parts, log, session>>

CallDetectFromText ==
    /\ found = NoResult
    /\ found' = Called("detectToolCallFromText", detectToolCallFromText(InputText))
    /\ UNCHANGED <<parts, log, session>>

CallDetect ==
    /\ found = NoResult
    /\ found' = Called("detectToolCall", detectToolCall(InputText))
    /\ UNCHANGED <<parts, log, session>>

DetectNext ==
    \/ CallDetectFromJSON
    \/ CallDetectFromText
    \/ CallDetect

DetectSpec == DetectInit /\ [][DetectNext]_vars

\* Texts detectToolCall is called with again and again.
RepeatInputs ==
    { <<>>,
      <<ForYou>>,
      <<IWillUse>>,
      <<Json(ToolCallV(StrV("add"), AddArgs), "compact")>>,
      <<HereIs, Json(ToolCallV(StrV("echo"), EchoArgs), "compact")>>,
      <<UsingTool, Json(ToolCallV(StrV("add"), StrV("test")), "compact")>> }

\* detectToolCall with its patterns kept between calls in one sticky
\* regular expression: after a call that matched, the next search starts
\* behind that match and finds nothing.
CallOn_SharedPattern(input) ==
    /\ Len(log) < MaxCalls
    /\ parts' = input
    /\ found' = IF log # <<>> /\ log[Len(log)].res.isToolCall
                THEN Called("detectToolCall", NotDetected(Concat(input), "json-parsing"))
                ELSE Called("detectToolCall", detectToolCall(Concat(input)))
    /\ log' = Append(log, [input |-> input, res |-> found'.res])
    /\ UNCHANGED session

\* One more call of detectToolCall, on input.  Its regular expressions and
\* its args object are made by the call: nothing of a call outlives it.
CallOn(input) ==
    /\ Len(log) < MaxCalls
    /\ parts' = input
    /\ found' = Called("detectToolCall", detectToolCall(Concat(input)))
    /\ log' = Append(log, [input |-> input, res |-> found'.res])
    /\ UNCHANGED session

RepeatNext == \E input \in RepeatInputs : CallOn(input)

\* Before the first call: nothing has been detected, and no session runs.
RepeatInit == Init /\ \A c \in Clients : transport[c] = "none"

RepeatSpec == RepeatInit /\ [][RepeatNext]_vars

\* -------------------------------------------------------------------- main
\* main: loadConfig, the LLM_API_KEY test, connectToAllServers, and the
\* construction and start of the session.  The servers of the configuration
\* are the entries 1..NClients of config.mcpServers.

\* What the configuration file may be: a JSON object with mcpServers, a JSON
\* object without it, text that is not JSON, or no file that can be read.
ConfigFiles == {"ok", "noServers", "malformed", "unreadable"}

\* The client connectToServer makes for entry c: it is connected to the
\* transport built from that entry's command, args and env.
ClientFor(c) == [name |-> c, connectedTo |-> c]

\* main is called with this file at configPath and LLM_API_KEY set or not.
MainStart(file, key) ==
    [pc |-> "load", file |-> file, apiKey |-> key,
     conn |-> [c \in Clients |-> "none"], order |-> <<>>, clientMap |-> <<>>,
     cause |-> "none"]

MainInit ==
    /\ SessionInit
    /\ parts = <<>>
    /\ found = NoResult
    /\ log = <<>>
    /\ \E file \in ConfigFiles, key \in BOOLEAN : boot = MainStart(file, key)

\* main's catch block: console.error and process.exit(1).
MainFails(cause) ==
    /\ boot' = [boot EXCEPT !.pc = "failed", !.cause = cause]
    /\ alive' = FALSE
    /\ exitHow' = "exit1"
    /\ UNCHANGED nSig

\* loadConfig settles: readFile or JSON.parse throws, or mcpServers is
\* missing, or the configuration is returned.
LoadConfig ==
    /\ alive /\ boot.pc = "load"
    /\ IF boot.file = "ok"
       THEN /\ boot' = [boot EXCEPT !.pc = "key"]
            /\ UNCHANGED process
       ELSE MainFails("config")
    /\ UNCHANGED <<config, pc, scanIdx, allTools, messages, locals, ending, turnLog,
                   outside, engine>>

\* The test of LLM_API_KEY left out.
CheckApiKey_Skipped ==
    /\ alive /\ boot.pc = "key"
    /\ boot' = [boot EXCEPT !.pc = "connect"]
    /\ UNCHANGED <<config, pc, scanIdx, allTools, messages, locals, process, ending,
                   turnLog, outside, engine>>

\* if (!apiKey) throw
CheckApiKey ==
    /\ alive /\ boot.pc = "key"
    /\ IF boot.apiKey
       THEN /\ boot' = [boot EXCEPT !.pc = "connect"]
            /\ UNCHANGED process
       ELSE MainFails("apiKey")
    /\ UNCHANGED <<config, pc, scanIdx, allTools, messages, locals, ending, turnLog,
                   outside, engine>>

\* connectToAllServers up to its await: entries.map calls connectToServer
\* for every entry, and every call runs up to its await client.connect.
ConnectToAllServers ==
    /\ alive /\ boot.pc = "connect"
    /\ boot' = [boot EXCEPT !.pc = "connecting",
                            !.conn = [c \in Clients |-> "pending"]]
    /\ UNCHANGED <<config, pc, scanIdx, allTools, messages, locals, process, ending,
                   turnLog, outside, engine>>

\* The array of clients taken in the order in which the connections were
\* made.
PromiseAll_ByCompletion(order) ==
    [index \in 1..Len(order) |-> ClientFor(order[index])]

\* Promise.all resolves with the clients in the order of the entries,
\* whatever the order in which the connections were made.
PromiseAll(order) ==
    [index \in 1..Len(order) |-> ClientFor(index)]

\* entries.forEach(([name], index) => clientMap.set(name, clients[index]))
BuildClientMap(clients) == [name \in Clients |-> clients[name]]

\* client.connect of entry c settles.  The last one to resolve resolves
\* Promise.all: the map is built and main constructs the session.  One that
\* rejects rejects Promise.all: main's catch block ends the process.
ConnectSettles(c, ok) ==
    /\ alive /\ boot.pc = "connecting" /\ boot.conn[c] = "pending"
    /\ IF ok
       THEN LET order == Append(boot.order, c)
                conn == [boot.conn EXCEPT ![c] = "open"]
            IN
            /\ IF \A d \in Clients : conn[d] = "open"
               THEN boot' = [boot EXCEPT !.conn = conn, !.order = order,
                                         !.clientMap = BuildClientMap(PromiseAll(order)),
                                         !.pc = "session"]
               ELSE boot' = [boot EXCEPT !.conn = conn, !.order = order]
            /\ UNCHANGED process
       ELSE MainFails("connect")
    /\ UNCHANGED <<config, pc, scanIdx, allTools, messages, locals, ending, turnLog,
                   outside, engine>>

\* await session.start()
MainStartsSession ==
    /\ boot.pc = "session"
    /\ Start

MainNext ==
    \/ LoadConfig
    \/ CheckApiKey
    \/ ConnectToAllServers
    \/ \E c \in Clients, ok \in BOOLEAN : ConnectSettles(c, ok)
    \/ MainStartsSession

MainSpec == MainInit /\ [][MainNext]_vars

\* ------------------------------------------------------------------ claims

Range(f) == {f[n] : n \in DOMAIN f}

RECURSIVE TransportsFrom(_)
\* The clients with a transport, in the map's enumeration order, from c on.
TransportsFrom(c) ==
    IF c > NClients THEN <<>>
    ELSE (IF HasTransport(c) THEN <<c>> ELSE <<>>) \o TransportsFrom(c + 1)

TransportOrder == TransportsFrom(1)

Runs == 0..MaxSigInt

\* How many times close was called on the transport of client c.
CloseCount(c) == Cardinality({r \in Runs : c \in Range(runs[r].log)})

\* A cleanup run that is over.
RunOver(r) == runs[r].st \in {"returned", "threw"} \/ Finished(runs[r])

\* The session has ended: start returned or the process is gone.
Terminated == pc = "done" \/ ~alive

\* The result text is one processLlmResponse builds on its tool path.
IsToolPathResult ==
    \/ toolOutcome = "ok" /\ \E payload \in ToolResults : result = ToolResultText(payload)
    \/ toolOutcome = "error" /\ \E message \in ToolErrors : result = ToolErrorText(message)
    \/ toolOutcome = "noserver"
       /\ result = NoServerText(GetKey(parseToolCallRequest(llmResponse), "tool"))

\* C1: a turn whose first model response is a tool call and whose followup
\* call succeeds adds exactly four messages to the transcript it started
\* from: the user's input, the raw first response as assistant, the tool
\* result text as system, the followup response as assistant; while the turn
\* is under way the transcript holds a prefix of these and nothing else.
C1_ToolTurnAppendsFour ==
    (turns > 0 /\ pc \in {"scan", "call", "llm2", "question"} /\ IsToolCall(llmResponse)) =>
        LET four == <<Msg("user", userInput), Msg("assistant", llmResponse),
                      Msg("system", result), Msg("assistant", finalResponse)>>
        IN
        /\ pc \in {"scan", "call"} => messages = turnBase \o SubSeq(four, 1, 1)
        /\ pc = "llm2" => (messages = turnBase \o SubSeq(four, 1, 3) /\ IsToolPathResult)
        /\ pc = "question" => (turnDone /\ messages = turnBase \o four /\ IsToolPathResult)

C1_Witness ==
    /\ pc = "question" /\ turnDone /\ IsToolCall(llmResponse)
    /\ toolOutcome = "ok"
    /\ Len(messages) = 5
    /\ messages[4] = Msg("system", ToolResultText(EchoResult))

\* C2: when the first model call of a turn resolves with a text that is not
\* a tool call, that step leaves the transcript at what the turn started
\* from plus the user message and an assistant message with the raw text,
\* with one model call made, no listTools and no callTool, and the session
\* awaiting input again.
C2_DirectTurn ==
    [][(pc = "llm1" /\ pc' # "llm1" /\ caught' = caught /\ ~IsToolCall(llmResponse')) =>
        ( /\ pc' = "question"
          /\ turnDone'
          /\ messages' = turnBase \o <<Msg("user", userInput), Msg("assistant", llmResponse')>>
          /\ llmCalls' = 1
          /\ listCalls' = <<>>
          /\ toolCalls' = <<>> )
      ]_vars

C2_Witness ==
    /\ pc = "question" /\ turnDone /\ llmResponse = ToolOnly
    /\ messages[Len(messages)] = Msg("assistant", ToolOnly)
    /\ Len(messages) = 3

\* C3, as stated: whenever the session is about to read the next input or
\* has left the loop, the last accepted turn has printed exactly one reply.
C3_OneReplyPerAcceptedTurn ==
    (turns > 0 /\ pc \in {"question", "cleanup", "done"}) => replies = 1

\* C3, amended: a turn that ran to its end (direct answer or followup) has
\* printed exactly one reply, a turn that has not has printed none, and input
\* is read again only after the turn ran to its end.
C3_OneReplyPerCompletedTurn ==
    turns > 0 =>
        /\ replies = (IF turnDone THEN 1 ELSE 0)
        /\ pc = "question" => turnDone

C3_Witness ==
    /\ pc = "question" /\ turnDone /\ replies = 1
    /\ IsToolCall(llmResponse) /\ toolOutcome = "noserver"

\* C4: once start has returned or a SIGINT handler has ended the process,
\* close has been called exactly once on every transport, and no transport
\* is closed both by the cleanup of a SIGINT handler and by the cleanup of
\* the finally block.
C4_ClosedExactlyOnce ==
    /\ (pc = "done" \/ exitHow = "exit") =>
           \A c \in Clients : HasTransport(c) => CloseCount(c) = 1
    /\ \A c \in Clients, h \in 1..MaxSigInt :
           ~(c \in Range(runs[0].log) /\ c \in Range(runs[h].log))

\* C5: a cleanup run calls close on the clients that have a transport in
\* enumeration order, and a run that is over has called it on every one of
\* them, whichever closes failed.
C5_CleanupAttemptsAll ==
    \A r \in Runs :
        /\ Len(runs[r].log) <= Len(TransportOrder)
        /\ runs[r].log = SubSeq(TransportOrder, 1, Len(runs[r].log))
        /\ RunOver(r) => runs[r].log = TransportOrder

C5_Witness ==
    \E r \in Runs :
        /\ RunOver(r)
        /\ Len(runs[r].log) = 2
        /\ runs[r].log[1] \in runs[r].failed

\* C6: no cleanup run ends with an exception, and a start in which nothing
\* but closes failed returns normally.
C6_CloseFailureNotEscalated ==
    /\ \A r \in Runs : runs[r].st # "threw"
    /\ (pc = "done" /\ caught = "none") => startOutcome = "returned"

C6_Witness ==
    /\ pc = "done" /\ caught = "none" /\ startOutcome = "returned"
    /\ runs[0].failed # {}

\* C7: when the session has ended, by whatever path (start returned or the
\* process is gone), some cleanup run has called close on every connection.
C7_CleanupBeforeEnd ==
    Terminated =>
        \E r \in Runs : runs[r].st # "idle" /\ runs[r].log = TransportOrder

\* C8: after the first model call of a turn failed the session is
\* terminating: the transcript ends with that turn's user message, no tool
\* was listed or called, no reply was printed, no input is read again,
\* cleanup has been entered and has gone over all the connections when
\* start returns.
C8_ModelFailureTerminates ==
    caught = "llm1" =>
        /\ pc \in {"cleanup", "done"}
        /\ rlClosed
        /\ messages = turnBase \o <<Msg("user", userInput)>>
        /\ listCalls = <<>> /\ toolCalls = <<>>
        /\ replies = 0 /\ ~turnDone
        /\ runs[0].st # "idle"
        /\ pc = "done" => runs[0].log = TransportOrder

C8_Witness ==
    /\ caught = "llm1" /\ pc = "done"
    /\ Len(TransportOrder) = 2

\* C9, as stated: after a model call failed the session goes on.
C9_SessionContinues ==
    caught \in {"llm1", "llm2"} => pc \notin {"cleanup", "done"}

\* C9, amended: after a model call (first or followup) failed the session
\* is terminating, and from then on no input is read and nothing is added to
\* the transcript.
C9_ModelFailureEndsSession ==
    [][(caught \in {"llm1", "llm2"}) =>
        ( /\ pc \in {"cleanup", "done"} /\ pc' \in {"cleanup", "done"}
          /\ messages' = messages
          /\ userInput' = userInput
          /\ turns' = turns )
      ]_vars

C9_Witness ==
    /\ caught = "llm2" /\ pc = "done"
    /\ toolOutcome = "ok"

\* C10: after callTool failed the turn goes on as after a success:
\* the result is the error text, the transcript gets the raw request as
\* assistant and the error text as system, the followup call is made, and
\* start's catch block is not reached by the failure.
C10_ToolFailureBecomesMessage ==
    toolOutcome = "error" =>
        /\ caught \in {"none", "llm2"}
        /\ pc \in {"llm2", "question", "cleanup", "done"}
        /\ \E message \in ToolErrors : result = ToolErrorText(message)
        /\ llmCalls = 2
        /\ Len(messages) >= Len(turnBase) + 3
        /\ SubSeq(messages, Len(turnBase) + 1, Len(turnBase) + 3)
               = <<messages[Len(turnBase) + 1], Msg("assistant", llmResponse),
                   Msg("system", result)>>
        /\ messages[Len(turnBase) + 1].role = "user"

C10_Witness ==
    /\ toolOutcome = "error" /\ pc = "llm2"
    /\ messages[Len(messages)] = Msg("system", ToolErrorText(<<W("Tool"), WS, W("failed")>>))

\* The tool name of the request in the current first response.
RequestedTool == GetKey(parseToolCallRequest(llmResponse), "tool")

\* this.clients.values(), in enumeration order.
ClientOrder == [n \in 1..NClients |-> n]

NoCatalogHas(tool) == \A c \in Clients : ~HasTool(catalog[c], tool)

\* C11: when no client's catalog has the requested tool, callTool is called
\* on no client; once every client was asked the result is the "No server
\* found" text, the transcript gets the raw request as assistant and that
\* text as system, and the followup model call is made.
C11_NoServerBecomesMessage ==
    /\ (turns > 0 /\ pc \in {"scan", "call", "llm2"} /\ IsToolCall(llmResponse)
            /\ NoCatalogHas(RequestedTool)) =>
           /\ toolCalls = <<>>
           /\ pc = "llm2" => toolOutcome = "noserver"
    /\ toolOutcome = "noserver" =>
           /\ NoCatalogHas(RequestedTool)
           /\ toolCalls = <<>>
           /\ listCalls = ClientOrder
           /\ result = NoServerText(RequestedTool)
           /\ caught \in {"none", "llm2"}
           /\ llmCalls = 2
           /\ Len(messages) >= Len(turnBase) + 3
           /\ messages[Len(turnBase) + 1].role = "user"
           /\ messages[Len(turnBase) + 2] = Msg("assistant", llmResponse)
           /\ messages[Len(turnBase) + 3] = Msg("system", result)

C11_Witness ==
    /\ toolOutcome = "noserver" /\ pc = "llm2"
    /\ llmResponse = EchoCall
    /\ messages[Len(messages)] = Msg("system", NoServerText(StrV("echo")))
    /\ llmCalls = 2

\* C12: the scan of a turn asks the clients for their tools in enumeration
\* order and calls callTool at most once, on the first client whose catalog
\* has the requested name; no client after that one is asked or called,
\* whether the call fails or not and whether later catalogs have the name
\* or not.
C12_ScanStopsAtFirstMatch ==
    turns > 0 =>
        /\ Len(toolCalls) <= 1
        /\ Len(listCalls) <= NClients
        /\ listCalls = SubSeq(ClientOrder, 1, Len(listCalls))
        /\ toolCalls # <<>> =>
               LET c == toolCalls[1].client IN
               /\ toolCalls[1].name = RequestedTool
               /\ HasTool(catalog[c], RequestedTool)
               /\ \A d \in 1..(c - 1) : ~HasTool(catalog[d], RequestedTool)
               /\ listCalls = SubSeq(ClientOrder, 1, c)

C12_Witness ==
    /\ toolOutcome = "error" /\ pc = "question" /\ turnDone
    /\ toolCalls # <<>> /\ toolCalls[1].client = 1
    /\ HasTool(catalog[2], StrV("echo"))
    /\ listCalls = <<1>>

\* C13: once the first response of a turn has been routed, the session is on
\* its tool path (the scan of the clients was started) exactly if
\* detectToolCall finds a tool call in that response, and a callTool it makes
\* carries the tool name and the arguments detectToolCall recovers.
C13_RoutingAgreesWithDetection ==
    (turns > 0 /\ (pc \in {"scan", "call", "llm2"} \/ (pc = "question" /\ turnDone))) =>
        LET d == detectToolCall(llmResponse) IN
        /\ (listCalls # <<>>) <=> d.isToolCall
        /\ toolCalls # <<>> =>
               /\ d.isToolCall
               /\ toolCalls[1].name = StrV(d.toolCallRequest.toolName)
               /\ toolCalls[1].arguments = d.toolCallRequest.arguments

\* C14: once the transcript is seeded, every step leaves it as it was or
\* adds messages at its end: the messages it held stay, in their places and
\* unchanged.
C14_TranscriptAppendOnly ==
    [][(messages # <<>>) =>
        ( /\ Len(messages') >= Len(messages)
          /\ SubSeq(messages', 1, Len(messages)) = messages )
      ]_vars

C14_Witness ==
    /\ pc = "done" /\ caught = "llm2"
    /\ Len(messages) = 4
    /\ messages[4].role = "system"
    /\ nSig = 1

\* The array the caller holds.
Held == IF caller.ref = "copy" THEN copy ELSE messages

C16_SystemMessageFirst ==
    /\ (pc = "question" /\ turns = 0) => Len(messages) = 1
    /\ messages = <<>> => (turns = 0 /\ pc \in {"idle", "prompt", "cleanup", "done"})
    /\ messages # <<>> =>
           /\ messages[1] = Msg("system", SystemPrompt(allTools))
           /\ turns = 0 => Len(messages) = 1
           /\ \A n \in 1..Len(messages) : messages[n].role = "user" => n > 1

C16_Witness ==
    /\ pc = "question" /\ turns = 1 /\ turnDone
    /\ Len(messages) = 3
    /\ messages[1].role = "system" /\ messages[2].role = "user"
    /\ allTools # <<>>

ExitWords == {<<W("exit")>>, <<W("quit")>>}

\* C17: a step that leaves the wait for input either ends the session (the
\* line was "exit" or "quit" whatever its case and the blanks around it, or
\* the read failed) with nothing added to the transcript and no model call,
\* then or later; or it adds the trimmed line, which is no exit word, as a
\* user message and calls the model.  A line that was read always leaves the
\* wait.
C17_InputRouting ==
    [][ /\ (pc = "question" /\ pc' # "question") =>
              IF pc' = "llm1"
              THEN /\ \E line \in Inputs : userInput' = Trim(line)
                   /\ ToLowerCase(userInput') \notin ExitWords
                   /\ messages' = Append(messages, Msg("user", userInput'))
                   /\ llmCalls' = 1
              ELSE /\ pc' = "cleanup" /\ caught' = caught
                   /\ messages' = messages
                   /\ llmCalls' = llmCalls
        /\ (pc = "question" /\ userInput' # userInput) => pc' # "question"
        /\ (pc \in {"cleanup", "done"}) =>
               (pc' \in {"cleanup", "done"} /\ messages' = messages /\ llmCalls' = llmCalls)
      ]_vars

C17_Witness ==
    /\ pc = "done" /\ caught = "none"
    /\ userInput = <<W("QUIT")>>
    /\ turns = 1 /\ llmCalls = 1
    /\ messages[2] = Msg("user", <<W("Use"), WS, W("a"), WS, W("tool")>>)
    /\ Len(messages) = 3

\* C18: when a SIGINT was delivered during a turn (start is suspended on a
\* model call, a listTools or a callTool) and the cleanup of its handler is
\* still waiting for a close, no step adds a message, calls the model or
\* calls listTools or callTool.
C18_InterruptSkipsTurn ==
    [][(/\ nSig > 0
        /\ pc \in {"llm1", "scan", "call", "llm2"}
        /\ \E h \in 1..MaxSigInt : Closing(runs[h])) =>
        ( /\ messages' = messages
          /\ llmCalls' = llmCalls
          /\ listCalls' = listCalls
          /\ toolCalls' = toolCalls )
      ]_vars

\* C19: the steps of a turn are taken one after the other.  While the first
\* model call is outstanding no listTools or callTool has been started;
\* while a listTools or the callTool is outstanding the first call has
\* returned its request, the clients before were asked one by one and the
\* followup has not been started; while the followup is outstanding the tool
\* step has come to its result; input is read again only when the turn ran
\* to its end.
C19_Sequential ==
    turns > 0 =>
        /\ pc = "llm1" =>
               /\ llmCalls = 1 /\ listCalls = <<>> /\ toolCalls = <<>>
               /\ toolOutcome = "none" /\ ~turnDone
               /\ Len(messages) = Len(turnBase) + 1
        /\ pc = "scan" =>
               /\ llmCalls = 1 /\ IsToolCall(llmResponse)
               /\ listCalls # <<>> /\ listCalls[Len(listCalls)] = scanIdx
               /\ toolCalls = <<>> /\ toolOutcome = "none" /\ ~turnDone
               /\ Len(messages) = Len(turnBase) + 1
        /\ pc = "call" =>
               /\ llmCalls = 1 /\ IsToolCall(llmResponse)
               /\ Len(toolCalls) = 1
               /\ toolCalls[1].client = listCalls[Len(listCalls)]
               /\ toolOutcome = "none" /\ ~turnDone
               /\ Len(messages) = Len(turnBase) + 1
        /\ pc = "llm2" =>
               /\ llmCalls = 2 /\ toolOutcome # "none" /\ IsToolPathResult
               /\ ~turnDone /\ replies = 0
               /\ Len(messages) = Len(turnBase) + 3
        /\ pc = "question" =>
               /\ turnDone /\ replies = 1
               /\ llmCalls = (IF toolOutcome = "none" THEN 1 ELSE 2)

C19_Witness ==
    /\ pc = "call" /\ listCalls = <<1, 2>>
    /\ toolCalls # <<>> /\ toolCalls[1].client = 2
    /\ llmCalls = 1 /\ nSig = 0

\* C20: in a turn the model is called once, and a second time only when the
\* tool step has come to a result; callTool is called at most once; a model
\* call that failed and a callTool that failed are not made again.
C20_NoRetry ==
    turns > 0 =>
        /\ llmCalls \in {1, 2}
        /\ llmCalls = 2 => toolOutcome # "none"
        /\ Len(toolCalls) <= 1
        /\ toolOutcome \in {"ok", "error"} => Len(toolCalls) = 1
        /\ caught = "llm1" => (llmCalls = 1 /\ toolCalls = <<>>)
        /\ caught = "llm2" => llmCalls = 2
        /\ caught \in {"llm1", "llm2"} => pc \in {"cleanup", "done"}

C20_Witness ==
    /\ pc = "done" /\ caught = "llm2"
    /\ toolOutcome = "error"
    /\ llmCalls = 2 /\ Len(toolCalls) = 1

\* C21: every getResponse call is handed the whole transcript as it stands:
\* the first call of a turn a transcript that ends with the user message just
\* appended, the follow-up call one that ends with the assistant's raw tool
\* request and then the system-role tool result.
C21_ModelSeesFullTranscript ==
    turns > 0 =>
        LET n == Len(sent) IN
        /\ pc \in {"llm1", "llm2"} => sent = messages
        /\ llmCalls = 1 =>
               /\ sent = SubSeq(messages, 1, Len(turnBase) + 1)
               /\ SubSeq(sent, 1, n - 1) = turnBase
               /\ sent[n].role = "user"
               /\ pc = "llm1" => sent[n].content = userInput
        /\ llmCalls = 2 =>
               /\ sent = SubSeq(messages, 1, Len(turnBase) + 3)
               /\ SubSeq(sent, 1, n - 3) = turnBase
               /\ sent[n - 2].role = "user"
               /\ sent[n - 1] = [role |-> "assistant", content |-> llmResponse]
               /\ sent[n] = [role |-> "system", content |-> result]

C21_Witness ==
    /\ pc = "llm2" /\ llmCalls = 2 /\ toolOutcome = "ok"
    /\ Len(sent) = 4 /\ sent = messages
    /\ sent[3].role = "assistant" /\ sent[4].role = "system"

\* A part that is a JSON object {"tool": s, "arguments": o} with s a string
\* and o an object.
IsRequest(part) ==
    /\ part.k = "json"
    /\ part.v.t = "obj"
    /\ part.v.keys = <<"tool", "arguments">>
    /\ part.v.vals[1].t = "str"
    /\ part.v.vals[2].t = "obj"

\* A part of white space only.
IsBlank(part) ==
    /\ part.k = "prose"
    /\ \A n \in 1..Len(part.text) : part.text[n].k = "ws"

\* The result is positive, by JSON parsing, with the tool and the arguments
\* of the request part.
RecoversRequest(res, part) ==
    /\ res.isToolCall
    /\ res.detectionMethod = "json-parsing"
    /\ res.toolCallRequest.toolName = part.v.vals[1].v
    /\ res.toolCallRequest.arguments = part.v.vals[2]

\* C22: a text that is one JSON object {"tool": s, "arguments": o}, s a
\* string and o an object, in compact or multi-line layout and with white
\* space around it or not, is detected by detectToolCall as a tool call by
\* JSON parsing, with toolName s and arguments o.
C22_WholeJsonDetected ==
    found.fn = "detectToolCall" =>
        \A i \in 1..Len(parts) :
            (IsRequest(parts[i]) /\ \A j \in 1..Len(parts) : j # i => IsBlank(parts[j]))
                => RecoversRequest(found.res, parts[i])

C22_Witness ==
    /\ found.fn = "detectToolCall"
    /\ parts = <<LineBreak, Json(ToolCallV(StrV("add"), AddArgs), "lines"), Space>>
    /\ found.res.isToolCall
    /\ found.res.toolCallRequest.toolName = "add"

\* The part has the character c ("{" or "}") in it.
HasBrace(part, c) ==
    \E n \in 1..Len(Render(part)) : Render(part)[n] = P(c)

\* Part i is a request and some other part is more than white space.
EmbeddedAt(i) ==
    /\ IsRequest(parts[i])
    /\ \E j \in 1..Len(parts) : j # i /\ ~IsBlank(parts[j])

NamesTool(part) == part.k = "prose" /\ part.names # ""

\* C24: for a text in which both the JSON parsing and the text patterns find
\* a tool call, detectToolCall returns the JSON result: json-parsing, with
\* the tool name of the JSON object's "tool" field and not the name the
\* text pattern captured.
C24_JsonTakesPrecedence ==
    found.fn = "detectToolCall" =>
        LET jsonResult == detectToolCallFromJSON(InputText)
            textResult == detectToolCallFromText(InputText)
        IN
        /\ (jsonResult.isToolCall /\ textResult.isToolCall) =>
               /\ found.res = jsonResult
               /\ found.res.detectionMethod = "json-parsing"
        /\ \A i, k \in 1..Len(parts) :
               ( /\ IsRequest(parts[i]) /\ NamesTool(parts[k])
                 /\ \A j \in 1..(i - 1) : ~HasBrace(parts[j], "{")
                 /\ \A j \in (i + 1)..Len(parts) : ~HasBrace(parts[j], "}") )
                   => /\ textResult.isToolCall
                      /\ RecoversRequest(found.res, parts[i])

C24_Witness ==
    /\ found.fn = "detectToolCall"
    /\ parts = <<UsingTool, Json(ToolCallV(StrV("echo"), EchoArgs), "compact")>>
    /\ detectToolCallFromText(InputText).isToolCall
    /\ detectToolCallFromText(InputText).toolCallRequest.toolName = "wrong"
    /\ found.res.toolCallRequest.toolName = "echo"

\* C25: a text with prose that names a tool the way a text pattern expects,
\* and with no JSON object {"tool": s, "arguments": o} (s a string, o an
\* object) in it, is detected by detectToolCall as a tool call by text
\* analysis, never by JSON parsing.
C25_TextPatternOnly ==
    ( /\ found.fn = "detectToolCall"
      /\ \E k \in 1..Len(parts) : NamesTool(parts[k])
      /\ \A i \in 1..Len(parts) : ~IsRequest(parts[i]) )
        => /\ found.res.isToolCall
           /\ found.res.detectionMethod = "text-analysis"

\* C26: a text with no JSON object {"tool": s, "arguments": o} (s a string,
\* o an object) in it and no prose that names a tool the way a text pattern
\* expects gets a negative result from detectToolCall, without a
\* toolCallRequest.
C26_NeitherShape ==
    ( /\ found.fn = "detectToolCall"
      /\ \A k \in 1..Len(parts) : ~NamesTool(parts[k]) /\ ~IsRequest(parts[k]) )
        => /\ ~found.res.isToolCall
           /\ "toolCallRequest" \notin DOMAIN found.res

\* A part that is a JSON object with "tool" and "arguments" whose arguments
\* are a string, a number, a boolean, null or an array.
HasNonObjectArguments(part) ==
    /\ part.k = "json"
    /\ part.v.t = "obj"
    /\ part.v.keys = <<"tool", "arguments">>
    /\ part.v.vals[2].t # "obj"

\* C27: a text whose only JSON objects with "tool" and "arguments" have
\* arguments that are not a JSON object is rejected by
\* detectToolCallFromJSON, whole or embedded, and every positive result by
\* JSON parsing carries arguments that are a JSON object.
C27_NonObjectArgumentsRejected ==
    /\ ( /\ found.fn = "detectToolCallFromJSON"
         /\ \E i \in 1..Len(parts) : HasNonObjectArguments(parts[i])
         /\ \A i \in 1..Len(parts) : ~IsRequest(parts[i]) )
           => ~found.res.isToolCall
    /\ ( /\ found.fn \in {"detectToolCallFromJSON", "detectToolCall"}
         /\ found.res.isToolCall
         /\ found.res.detectionMethod = "json-parsing" )
           => found.res.toolCallRequest.arguments.t = "obj"

\* C28: every result of detectToolCallFromJSON, detectToolCallFromText and
\* detectToolCall has a toolCallRequest exactly when its isToolCall is true.
C28_RequestIffToolCall ==
    found.fn # "none" =>
        (("toolCallRequest" \in DOMAIN found.res) <=> found.res.isToolCall)

C28_Witness ==
    /\ found.fn = "detectToolCallFromText"
    /\ parts = <<IWillUse>>
    /\ found.res.isToolCall
    /\ found.res.toolCallRequest.toolName = "add"

\* C29: detectToolCallFromJSON tags every result json-parsing,
\* detectToolCallFromText tags every result text-analysis, and a negative
\* result of detectToolCall is tagged json-parsing.
C29_MethodTags ==
    /\ found.fn = "detectToolCallFromJSON" => found.res.detectionMethod = "json-parsing"
    /\ found.fn = "detectToolCallFromText" => found.res.detectionMethod = "text-analysis"
    /\ (found.fn = "detectToolCall" /\ ~found.res.isToolCall)
           => found.res.detectionMethod = "json-parsing"

C29_Witness ==
    /\ found.fn = "detectToolCall"
    /\ parts = <<ForYou>>
    /\ ~found.res.isToolCall
    /\ found.res.detectionMethod = "json-parsing"
    /\ detectToolCallFromText(InputText).detectionMethod = "text-analysis"

\* C30: every result of the three functions has the text the function was
\* called with as its rawResponse: not trimmed, and not the JSON substring
\* taken out of it.
C30_RawResponseVerbatim ==
    found.fn # "none" => found.res.rawResponse = InputText

C30_Witness ==
    /\ found.fn = "detectToolCallFromJSON"
    /\ parts = <<LineBreak, Json(ToolCallV(StrV("add"), AddArgs), "compact"), ForYou>>
    /\ found.res.isToolCall
    /\ found.res.rawResponse # Trim(InputText)
    /\ found.res.rawResponse # BraceSpan(InputText)
    /\ found.res.rawResponse = InputText

\* C31: the detection functions return a result for every text, and never
\* throw; when JSON.parse fails on the whole text the embedded attempt is
\* made, and when that fails too detectToolCall goes on to the text patterns.
C31_DetectionNeverFails ==
    found.fn # "none" =>
        /\ found.res # Thrown
        /\ found.res.isToolCall \in BOOLEAN
        /\ ( /\ found.fn \in {"detectToolCallFromJSON", "detectToolCall"}
             /\ ~JSONparse(Trim(InputText)).ok
             /\ MatchesToolCallFormat(JSONparse(BraceSpan(InputText))) )
               => /\ found.res.isToolCall
                  /\ found.res.detectionMethod = "json-parsing"
        /\ ( /\ found.fn = "detectToolCall"
             /\ ~JSONparse(Trim(InputText)).ok
             /\ BraceSpan(InputText) # <<>>
             /\ ~JSONparse(BraceSpan(InputText)).ok
             /\ \E k \in 1..Len(parts) : NamesTool(parts[k]) )
               => /\ found.res.isToolCall
                  /\ found.res.detectionMethod = "text-analysis"

C31_Witness ==
    /\ found.fn = "detectToolCall"
    /\ parts = <<OpenBrace, IWillUse, CloseBrace>>
    /\ ~JSONparse(Trim(InputText)).ok
    /\ ~JSONparse(BraceSpan(InputText)).ok
    /\ found.res.isToolCall
    /\ found.res.toolCallRequest.toolName = "add"

C33_FirstPatternInOrder ==
    found.fn = "detectToolCallFromText" =>
        LET \* the prose the first pattern, "(use|call|invoke) [the] tool
            \* NAME", matches
            verbs == {k \in 1..Len(parts) : parts[k] = IWillUse}
            named == {k \in 1..Len(parts) : NamesTool(parts[k])}
        IN
        /\ verbs # {} =>
               /\ found.res.isToolCall
               /\ found.res.toolCallRequest.toolName = parts[Least(verbs)].names
        /\ (verbs = {} /\ named # {}) =>
               /\ found.res.isToolCall
               /\ found.res.toolCallRequest.toolName = parts[Least(named)].names
        /\ named = {} => ~found.res.isToolCall

C33_Witness ==
    /\ found.fn = "detectToolCallFromText"
    /\ parts = <<UsingTool, LetMeHelp, IWillUse>>
    /\ found.res.isToolCall
    /\ found.res.toolCallRequest.toolName = "add"

RECURSIVE Offset(_)
\* The number of tools the servers before c list.
Offset(c) == IF c <= 1 THEN 0 ELSE Offset(c - 1) + Len(catalog[c - 1])

\* C34: what getAvailableTools returned is the catalogs of all servers one
\* after the other in the order of the map, every tool with the name of its
\* server; a tool name that several servers list is there once for each.
C34_AllToolsOfAllServers ==
    messages # <<>> =>
        /\ Len(allTools) = Offset(NClients + 1)
        /\ \A c \in Clients : \A n \in 1..Len(catalog[c]) :
               /\ allTools[Offset(c) + n].name = catalog[c][n].name
               /\ allTools[Offset(c) + n].serverName = c

C34_Witness ==
    /\ pc = "question"
    /\ \A c \in Clients : Len(catalog[c]) = 1 /\ catalog[c][1].name = "echo"
    /\ Len(allTools) = NClients
    /\ allTools[1].serverName = 1 /\ allTools[2].serverName = 2
    /\ allTools[1].name = allTools[2].name

\* The session has not begun: no prompt was built, no line was read, no
\* SIGINT handler was registered.
SessionNotBegun ==
    /\ pc = "idle" /\ messages = <<>> /\ allTools = <<>>
    /\ userInput = NoText /\ ~sigintOn /\ turns = 0

\* C35: with a configuration without mcpServers, or without LLM_API_KEY,
\* main never calls connectToServer, builds no system prompt and reads no
\* user input, and where it ends it ends with process.exit(1).
C35_ConfigFailureIsFatal ==
    (boot.pc # "none" /\ (boot.file # "ok" \/ ~boot.apiKey)) =>
        /\ boot.pc \in {"load", "key", "failed"}
        /\ \A c \in Clients : boot.conn[c] = "none"
        /\ SessionNotBegun
        /\ boot.pc = "failed" =>
               /\ ~alive /\ exitHow = "exit1"
               /\ boot.cause = (IF boot.file # "ok" THEN "config" ELSE "apiKey")

C35_Witness ==
    /\ boot.pc = "failed" /\ boot.file = "ok" /\ ~boot.apiKey
    /\ boot.cause = "apiKey" /\ exitHow = "exit1"
    /\ \A c \in Clients : boot.conn[c] = "none"

\* C36: when every connection was made, in whatever order, the map
\* connectToAllServers returns has the configured server names as its keys,
\* one entry each, and every name goes to the client connected to that
\* server's own configuration.
C36_ClientMapByName ==
    (boot.pc = "session") =>
        /\ DOMAIN boot.clientMap = Clients
        /\ \A name \in Clients :
               /\ boot.clientMap[name].connectedTo = name
               /\ boot.conn[name] = "open"
        /\ Len(boot.order) = NClients

C36_Witness ==
    /\ boot.pc = "session"
    /\ boot.order[1] = 2 /\ boot.order[2] = 1
    /\ boot.clientMap[1].connectedTo = 1
    /\ pc = "prompt"

\* C37: when a connection fails at startup, no connection that was made is
\* still open when the process has ended.
C37_ConnectionsClosedOnFailure ==
    (boot.pc = "failed" /\ boot.cause = "connect" /\ ~alive) =>
        \A c \in Clients : boot.conn[c] # "open"

\* C38: once start has compared result with llmResponse in a turn, it took
\* the tool branch (two messages pushed, follow-up call made) exactly when
\* parseToolCallRequest recognised a tool call in the response: the text
\* processLlmResponse returns on its tool path is never the response text.
C38_ToolBranchIffToolCall ==
    (turns > 0 /\ (llmCalls = 2 \/ turnDone)) =>
        /\ llmCalls = 2 <=> parseToolCallRequest(llmResponse) # NoToolCall
        /\ llmCalls = 2 =>
               /\ toolOutcome # "none"
               /\ result # llmResponse
               /\ Len(messages) >= Len(turnBase) + 3
               /\ messages[Len(turnBase) + 2] = [role |-> "assistant", content |-> llmResponse]
               /\ messages[Len(turnBase) + 3] = [role |-> "system", content |-> result]
        /\ llmCalls = 1 =>
               /\ toolOutcome = "none" /\ toolCalls = <<>>
               /\ result = llmResponse
               /\ Len(messages) = Len(turnBase) + 2

C38_Witness ==
    /\ pc = "llm2" /\ toolOutcome = "ok"
    /\ llmResponse = JSONstringify(MirrorResult)
    /\ result = ToolResultText(MirrorResult)
    /\ result # llmResponse

C40_AbortedTurn ==
    (caught = "scan") =>
        /\ messages = Append(turnBase, Msg("user", userInput))
        /\ llmCalls = 1
        /\ ~turnDone
        /\ toolOutcome = "none"
        /\ toolCalls = <<>>
        /\ pc \in {"cleanup", "done"}
        /\ rlClosed /\ ~sigintOn

C40_ListToolsFailureAbortsTurn ==
    /\ []C40_AbortedTurn
    /\ [][ScanListTools(FALSE) =>
            /\ caught' = "scan"
            /\ pc' = "cleanup"
            /\ messages' = messages
            /\ llmCalls' = llmCalls
            /\ replies' = replies]_vars

C40_Witness ==
    /\ caught = "scan"
    /\ pc = "done"
    /\ Len(listCalls) = NClients
    /\ messages[Len(messages)].role = "user"
    /\ runs[0].st = "returned" /\ Len(runs[0].log) = NClients

====
